---- MODULE Spec2Model ----
(***************************************************************************)
(* Model of swebench/harness/docker_utils.py: the timeout-bound executor   *)
(* (exec_run_with_timeout), image and container cleanup (cleanup_image,    *)
(* cleanup_container), the tier predicate (should_remove) and the batch    *)
(* cleaner (clean_images).  Each function has its own group of variables   *)
(* and its own specification; a specification leaves the other groups at   *)
(* their idle values.                                                      *)
(***************************************************************************)
EXTENDS Integers, Sequences, FiniteSets

\* Python's None, for variables that otherwise hold a string.
None == "None"

(***************************************************************************)
(* Bounds of the model.                                                    *)
(***************************************************************************)
\* Largest timeout argument tried (seconds, as clock ticks).
MaxTimeout == 2
\* Ticks the clock may run past the largest timeout.
ClockSlack == 1
\* Largest host process ID an inspect may report.
MaxPid == 2
\* Longest suffix appended to a name stem when image names are enumerated.
MaxSuffix == 2

MaxClock == MaxTimeout + ClockSlack

VARIABLES
    \* ---- exec_run_with_timeout -------------------------------------------
    cmd,          \* argument: the command
    timeout,      \* argument: the join timeout
    exec_result,  \* nonlocal, written by the worker (line 173)
    exec_id,      \* nonlocal, written by the worker (line 172)
    exception,    \* nonlocal, written by the worker (line 175)
    cpc,          \* caller's position
    wpc,          \* worker thread's position
    raised,       \* the exception travelling to the worker's except clause
    clock,        \* wall clock, in ticks since thread.join was entered
    joinTimedOut, \* ghost: join returned with the worker thread still alive
    deadlineFirst, \* ghost: join returned while the worker was still inside
                  \* exec_create or exec_start
    storedAt,     \* ghost: clock when line 175 stored the exception, or -1
    tFinish,      \* ghost: clock when the worker thread ended, or -1
    cmdResult,    \* ghost: what exec_start returned, or None
    outcome,      \* what the call gave its caller: [kind, value]
    \* ---- cleanup_image / cleanup_container ------------------------------
    fn,           \* which function is called
    logger,       \* argument: None, "quiet" or a logger object
    rm_image,     \* argument of cleanup_image
    image_id,     \* argument of cleanup_image
    container,    \* argument of cleanup_container: None or a handle
    kpc,          \* position in the cleanup call
    container_info, \* local: what inspect_container returned
    pid,          \* local: container_info["State"].get("Pid", 0)
    calls,        \* ghost: engine and OS calls made, in order
    logCalls,     \* ghost: log_info / log_error invocations, in order
    stdout,       \* what print wrote
    logged,       \* what logger.info received
    failures,     \* ghost: failures of image remove, kill fallback, container remove
    kOutcome,     \* what the call gave its caller
    \* ---- should_remove ---------------------------------------------------
    image_name,   \* argument (in clean_images: the loop variable)
    cache,        \* argument: the cache level
    clean,        \* argument: the clean flag
    prior_images, \* argument: names of the images that existed before the run
    rpc,          \* position in the should_remove call
    result,       \* what should_remove returned
    \* ---- clean_images ----------------------------------------------------
    images,       \* local: list_images(client)
    todo,         \* images the for loop has not visited yet
    removed,      \* local: the counter
    lpc,          \* position in the clean_images call
    lOutcome      \* what the call gave its caller

execVars == <<cmd, timeout, exec_result, exec_id, exception, cpc, wpc, raised,
              clock, joinTimedOut, deadlineFirst,
              storedAt, tFinish, cmdResult, outcome>>

cleanupVars == <<fn, logger, rm_image, image_id, container, kpc, container_info, pid,
                 calls, logCalls, stdout, logged, failures, kOutcome>>

removeVars == <<image_name, cache, clean, prior_images, rpc, result>>

cleanVars == <<images, todo, removed, lpc, lOutcome>>

notExec == <<cleanupVars, removeVars, cleanVars>>
notCleanup == <<execVars, removeVars, cleanVars>>
notRemove == <<execVars, cleanupVars, cleanVars>>

vars == <<execVars, cleanupVars, removeVars, cleanVars>>

(***************************************************************************)
(* Outcomes of a call.                                                     *)
(***************************************************************************)
Pending == [kind |-> "none", value |-> <<>>]
Return(v) == [kind |-> "return", value |-> <<v>>]
Raise(e) == [kind |-> "raise", value |-> <<e>>]
\* TimeoutError(f"Command '{cmd}' timed out after {timeout} seconds")
TimeoutError(c, t) ==
    [kind |-> "raise", value |-> <<"TimeoutError", "Command '", c, "' timed out after ", t, " seconds">>]

(***************************************************************************)
(* exec_run_with_timeout                                                   *)
(***************************************************************************)
Cmds == {"pytest", "make"}
Results == {"out_a", "out_b"}
\* What exec_create / exec_start (and the ["Id"] lookup) can raise.
CreateErrors == {"APIError_create", "KeyError_Id"}
StartErrors == {"APIError_start"}

\* `if exception:` -- an exception object is truthy, None is not.
Truthy(x) == x # None

\* thread.is_alive(): from start() until run() has ended.
IsAlive(w) == w \notin {"idle", "dead"}

InitExec ==
    /\ cmd \in Cmds
    /\ timeout \in 1..MaxTimeout
    /\ exec_result = None
    /\ exec_id = None
    /\ exception = None
    /\ cpc = "start"
    /\ wpc = "idle"
    /\ raised = None
    /\ clock = 0
    /\ joinTimedOut = FALSE
    /\ deadlineFirst = FALSE
    /\ storedAt = -1
    /\ tFinish = -1
    /\ cmdResult = None
    /\ outcome = Pending

\* Time passes while the call is in progress or the worker still runs.
Tick ==
    /\ cpc # "start"
    /\ clock < MaxClock
    /\ cpc # "done" \/ wpc # "dead"
    /\ clock' = clock + 1
    /\ UNCHANGED <<cmd, timeout, exec_result, exec_id, exception, cpc, wpc, raised,
                   joinTimedOut, deadlineFirst, storedAt, tFinish, cmdResult, outcome>>
    /\ UNCHANGED notExec

\* Lines 177-178: thread = Thread(target=run_command); thread.start()
ThreadStart ==
    /\ cpc = "start"
    /\ cpc' = "join"
    /\ wpc' = "l172"
    /\ UNCHANGED <<cmd, timeout, exec_result, exec_id, exception, raised, clock,
                   joinTimedOut, deadlineFirst, storedAt, tFinish, cmdResult, outcome>>
    /\ UNCHANGED notExec

\* Line 172: exec_id = container.client.api.exec_create(container.id, cmd)["Id"]
WorkerExecCreate ==
    /\ wpc = "l172"
    /\ \/ /\ exec_id' = "exec_1"
          /\ wpc' = "l173"
          /\ UNCHANGED raised
       \/ \E e \in CreateErrors :
             /\ raised' = e
             /\ wpc' = "l175"
             /\ UNCHANGED exec_id
    /\ UNCHANGED <<cmd, timeout, exec_result, exception, cpc, clock,
                   joinTimedOut, deadlineFirst, storedAt, tFinish, cmdResult, outcome>>
    /\ UNCHANGED notExec

\* Line 173: exec_result = container.client.api.exec_start(exec_id)
WorkerExecStart ==
    /\ wpc = "l173"
    /\ \/ \E r \in Results :
             /\ exec_result' = r
             /\ cmdResult' = r
             /\ wpc' = "exit"
             /\ UNCHANGED raised
       \/ \E e \in StartErrors :
             /\ raised' = e
             /\ wpc' = "l175"
             /\ UNCHANGED <<exec_result, cmdResult>>
    /\ UNCHANGED <<cmd, timeout, exec_id, exception, cpc, clock,
                   joinTimedOut, deadlineFirst, storedAt, tFinish, outcome>>
    /\ UNCHANGED notExec

\* Lines 174-175: except Exception as e: exception = e
WorkerExcept ==
    /\ wpc = "l175"
    /\ exception' = raised
    /\ storedAt' = clock
    /\ wpc' = "exit"
    /\ UNCHANGED <<cmd, timeout, exec_result, exec_id, cpc, raised, clock,
                   joinTimedOut, deadlineFirst, tFinish, cmdResult, outcome>>
    /\ UNCHANGED notExec

\* run_command returns and the thread ends.
WorkerExit ==
    /\ wpc = "exit"
    /\ wpc' = "dead"
    /\ tFinish' = clock
    /\ UNCHANGED <<cmd, timeout, exec_result, exec_id, exception, cpc, raised, clock,
                   joinTimedOut, deadlineFirst, storedAt, cmdResult, outcome>>
    /\ UNCHANGED notExec

Worker == WorkerExecCreate \/ WorkerExecStart \/ WorkerExcept \/ WorkerExit

\* Line 179: thread.join(timeout) returns when the thread has ended or the
\* timeout has elapsed, whichever the caller observes first.
JoinReturn ==
    /\ cpc = "join"
    /\ wpc = "dead" \/ clock >= timeout
    /\ joinTimedOut' = (wpc # "dead")
    /\ deadlineFirst' = (wpc \in {"l172", "l173"})
    /\ cpc' = "l181"
    /\ UNCHANGED <<cmd, timeout, exec_result, exec_id, exception, wpc, raised, clock,
                   storedAt, tFinish, cmdResult, outcome>>
    /\ UNCHANGED notExec

\* Faulty variant: the stored exception is not looked at.
CheckException_skip ==
    /\ cpc = "l181"
    /\ cpc' = "l184"
    /\ UNCHANGED <<cmd, timeout, exec_result, exec_id, exception, wpc, raised, clock,
                   joinTimedOut, deadlineFirst, storedAt, tFinish, cmdResult, outcome>>
    /\ UNCHANGED notExec

\* Lines 181-182: if exception: raise exception
CheckException ==
    /\ cpc = "l181"
    /\ IF Truthy(exception)
         THEN /\ outcome' = Raise(exception)
              /\ cpc' = "done"
         ELSE /\ cpc' = "l184"
              /\ UNCHANGED outcome
    /\ UNCHANGED <<cmd, timeout, exec_result, exec_id, exception, wpc, raised, clock,
                   joinTimedOut, deadlineFirst, storedAt, tFinish, cmdResult>>
    /\ UNCHANGED notExec

\* Faulty variant: the timeout branch also cancels the worker.
CheckAlive_cancel ==
    /\ cpc = "l184"
    /\ IF IsAlive(wpc)
         THEN /\ outcome' = TimeoutError(cmd, timeout)
              /\ cpc' = "done"
              /\ wpc' = "dead"
         ELSE /\ cpc' = "l187"
              /\ UNCHANGED <<outcome, wpc>>
    /\ UNCHANGED <<cmd, timeout, exec_result, exec_id, exception, raised, clock,
                   joinTimedOut, deadlineFirst, storedAt, tFinish, cmdResult>>
    /\ UNCHANGED notExec

\* Lines 184-185: if thread.is_alive(): raise TimeoutError(...)
CheckAlive ==
    /\ cpc = "l184"
    /\ IF IsAlive(wpc)
         THEN /\ outcome' = TimeoutError(cmd, timeout)
              /\ cpc' = "done"
         ELSE /\ cpc' = "l187"
              /\ UNCHANGED outcome
    /\ UNCHANGED <<cmd, timeout, exec_result, exec_id, exception, wpc, raised, clock,
                   joinTimedOut, deadlineFirst, storedAt, tFinish, cmdResult>>
    /\ UNCHANGED notExec

\* Line 187: return exec_result
ReturnResult ==
    /\ cpc = "l187"
    /\ outcome' = Return(exec_result)
    /\ cpc' = "done"
    /\ UNCHANGED <<cmd, timeout, exec_result, exec_id, exception, wpc, raised, clock,
                   joinTimedOut, deadlineFirst, storedAt, tFinish, cmdResult>>
    /\ UNCHANGED notExec

Caller == ThreadStart \/ JoinReturn \/ CheckException \/ CheckAlive \/ ReturnResult

NextExec == Tick \/ Worker \/ Caller

\* No call of exec_run_with_timeout is in progress.
IdleExec ==
    /\ cmd = None /\ timeout = 0 /\ exec_result = None /\ exec_id = None
    /\ exception = None /\ cpc = "idle" /\ wpc = "idle" /\ raised = None
    /\ clock = 0 /\ joinTimedOut = FALSE /\ deadlineFirst = FALSE
    /\ storedAt = -1 /\ tFinish = -1
    /\ cmdResult = None /\ outcome = Pending

(***************************************************************************)
(* cleanup_image, cleanup_container                                        *)
(***************************************************************************)
Logger == "logging.Logger"
LoggerValues == {None, "quiet", Logger}
ImageIds == {"sweb.env.x", "sweb.eval.y"}
Containers == {"container_1"}
ImageErrors == {"ImageNotFound", "APIError_rmi"}
StopErrors == {"APIError_stop"}
InspectErrors == {"APIError_inspect"}
KillErrors == {"ProcessLookupError"}
RemoveErrors == {"APIError_rm"}

\* Faulty variant: the "quiet" mode does not raise.
RaiseError_quietSwallows(lg) == lg = None

\* Lines 82-93 and 113-124: raise_error.
RaiseError(lg) ==
    IF lg = None THEN TRUE
    ELSE IF lg = "quiet" THEN TRUE
    ELSE FALSE

\* Faulty variant: the "quiet" mode prints.
Sink_quietPrints(lg) == IF lg = Logger THEN "logger.info" ELSE "print"

\* Lines 82-93 and 113-124: where log_info and log_error (both bound to the same
\* callable in every mode) send a message.
Sink(lg) ==
    IF lg = None THEN "print"
    ELSE IF lg = "quiet" THEN "null"
    ELSE "logger.info"

Msg(level, text, subject, exc, p) ==
    [level |-> level, text |-> text, subject |-> subject, exc |-> exc, pid |-> p]

\* The messages among ms that reach sink s under logger lg.
Routed(ms, lg, s) == IF Sink(lg) = s THEN ms ELSE <<>>

\* log_info / log_error are called with each of ms, in order.
Log(lg, ms) ==
    /\ logCalls' = logCalls \o ms
    /\ stdout' = stdout \o Routed(ms, lg, "print")
    /\ logged' = logged \o Routed(ms, lg, "logger.info")

\* A dict lookup d.get(k, default).
Get(d, k, default) == IF k \in DOMAIN d THEN d[k] ELSE default

\* What inspect_container may return: a dict with or without "State", whose
\* "State" has or lacks "Pid".
States == {<<>>} \cup {[Pid |-> p] : p \in -1..MaxPid}
Infos == {<<>>} \cup {[State |-> st] : st \in States}
NoInfo == <<>>

\* Lines 81-104: cleanup_image, as a function of its arguments and of what
\* client.images.remove does (err: None, or the exception it raises).
CleanupImage(lg, rm, img, err) ==
    LET attempt == Msg("info", "Attempting to remove image", img, None, 0)
        call == [op |-> "images.remove", subject |-> img, pid |-> 0, ok |-> (err = None)]
    IN  IF ~rm
          THEN [outcome |-> Return(None), calls |-> <<>>, logs |-> <<>>, failures |-> <<>>]
        ELSE IF err = None
          THEN [outcome |-> Return(None), calls |-> <<call>>,
                logs |-> <<attempt, Msg("info", "Image removed", img, None, 0)>>,
                failures |-> <<>>]
        ELSE IF RaiseError(lg)
          THEN [outcome |-> Raise(err), calls |-> <<call>>, logs |-> <<attempt>>,
                failures |-> <<[stage |-> "image_remove", exc |-> err]>>]
        ELSE [outcome |-> Return(None), calls |-> <<call>>,
              logs |-> <<attempt, Msg("error", "Failed to remove image", img, err, 0)>>,
              failures |-> <<[stage |-> "image_remove", exc |-> err]>>]

InitCleanup ==
    /\ fn \in {"cleanup_image", "cleanup_container"}
    /\ logger \in LoggerValues
    /\ IF fn = "cleanup_image"
         THEN rm_image \in BOOLEAN /\ image_id \in ImageIds /\ container = None
         ELSE rm_image = FALSE /\ image_id = None /\ container \in Containers \cup {None}
    /\ kpc = "call"
    /\ container_info = NoInfo
    /\ pid = 0
    /\ calls = <<>>
    /\ logCalls = <<>>
    /\ stdout = <<>>
    /\ logged = <<>>
    /\ failures = <<>>
    /\ kOutcome = Pending

\* A call of cleanup_image(client, image_id, rm_image, logger).
CleanupImageCall ==
    /\ fn = "cleanup_image"
    /\ kpc = "call"
    /\ \E err \in {None} \cup ImageErrors :
          LET r == CleanupImage(logger, rm_image, image_id, err)
          IN  /\ calls' = calls \o r.calls
              /\ Log(logger, r.logs)
              /\ failures' = failures \o r.failures
              /\ kOutcome' = r.outcome
    /\ kpc' = "done"
    /\ UNCHANGED <<fn, logger, rm_image, image_id, container, container_info, pid>>
    /\ UNCHANGED notCleanup

\* Lines 108-124: `if not container: return`, then the logger tri-state.
ContainerEntry ==
    /\ fn = "cleanup_container"
    /\ kpc = "call"
    /\ IF container = None
         THEN kOutcome' = Return(None) /\ kpc' = "done"
         ELSE kpc' = "stop" /\ UNCHANGED kOutcome
    /\ UNCHANGED <<fn, logger, rm_image, image_id, container, container_info, pid,
                   calls, logCalls, stdout, logged, failures>>
    /\ UNCHANGED notCleanup

\* Lines 126-133: the graceful stop; a failure is logged and leads to the kill
\* fallback.
ContainerStop ==
    /\ kpc = "stop"
    /\ \E err \in {None} \cup StopErrors :
          /\ calls' = Append(calls, [op |-> "stop", subject |-> container, pid |-> 0,
                                     ok |-> (err = None)])
          /\ IF err = None
               THEN /\ Log(logger, <<Msg("info", "Attempting to stop container", container, None, 0)>>)
                    /\ kpc' = "remove"
               ELSE /\ Log(logger, <<Msg("info", "Attempting to stop container", container, None, 0),
                            Msg("error", "Failed to stop container", container, err, 0)>>)
                    /\ kpc' = "inspect"
    /\ UNCHANGED <<fn, logger, rm_image, image_id, container, container_info, pid,
                   failures, kOutcome>>
    /\ UNCHANGED notCleanup

\* Lines 144-150: the kill fallback raised e2.
KillFallbackFailed(e2) ==
    /\ failures' = Append(failures, [stage |-> "kill_fallback", exc |-> e2])
    /\ IF RaiseError(logger)
         THEN /\ kOutcome' = Raise(e2)
              /\ kpc' = "done"
              /\ UNCHANGED <<logCalls, stdout, logged>>
         ELSE /\ Log(logger, <<Msg("error", "Failed to forcefully kill container", container, e2, 0)>>)
              /\ kpc' = "remove"
              /\ UNCHANGED kOutcome

\* Lines 135-136: inspect the container and read State.Pid.
ContainerInspect ==
    /\ kpc = "inspect"
    /\ \/ \E info \in Infos :
             /\ calls' = Append(calls, [op |-> "inspect_container", subject |-> container,
                                        pid |-> 0, ok |-> TRUE])
             /\ container_info' = info
             /\ IF "State" \in DOMAIN info
                  THEN /\ pid' = Get(info["State"], "Pid", 0)
                       /\ kpc' = "pidcheck"
                       /\ UNCHANGED <<logCalls, stdout, logged, failures, kOutcome>>
                  ELSE /\ KillFallbackFailed("KeyError_State")
                       /\ UNCHANGED pid
       \/ \E err \in InspectErrors :
             /\ calls' = Append(calls, [op |-> "inspect_container", subject |-> container,
                                        pid |-> 0, ok |-> FALSE])
             /\ KillFallbackFailed(err)
             /\ UNCHANGED <<container_info, pid>>
    /\ UNCHANGED <<fn, logger, rm_image, image_id, container>>
    /\ UNCHANGED notCleanup

\* Faulty variant: any non-zero process ID counts as valid.
ValidPid_nonzero(p) == p # 0

\* Line 137: if pid > 0
ValidPid(p) == p > 0

\* Lines 137-143: decide whether to kill.
ContainerPidCheck ==
    /\ kpc = "pidcheck"
    /\ IF ValidPid(pid)
         THEN /\ Log(logger, <<Msg("info", "Forcefully killing container", container, None, pid)>>)
              /\ kpc' = "kill"
         ELSE /\ Log(logger, <<Msg("error", "PID not killing", container, None, pid)>>)
              /\ kpc' = "remove"
    /\ UNCHANGED <<fn, logger, rm_image, image_id, container, container_info, pid,
                   calls, failures, kOutcome>>
    /\ UNCHANGED notCleanup

\* Line 141: os.kill(pid, signal.SIGKILL)
ContainerKill ==
    /\ kpc = "kill"
    /\ \E err \in {None} \cup KillErrors :
          /\ calls' = Append(calls, [op |-> "os.kill", subject |-> "SIGKILL", pid |-> pid,
                                     ok |-> (err = None)])
          /\ IF err = None
               THEN /\ kpc' = "remove"
                    /\ UNCHANGED <<logCalls, stdout, logged, failures, kOutcome>>
               ELSE KillFallbackFailed(err)
    /\ UNCHANGED <<fn, logger, rm_image, image_id, container, container_info, pid>>
    /\ UNCHANGED notCleanup

\* Lines 151-161: force-remove the container.
ContainerRemove ==
    /\ kpc = "remove"
    /\ \E err \in {None} \cup RemoveErrors :
          /\ calls' = Append(calls, [op |-> "remove", subject |-> container, pid |-> 0,
                                     ok |-> (err = None)])
          /\ IF err = None
               THEN /\ Log(logger, <<Msg("info", "Attempting to remove container", container, None, 0),
                            Msg("info", "Container removed", container, None, 0)>>)
                    /\ kOutcome' = Return(None)
                    /\ UNCHANGED failures
               ELSE /\ failures' = Append(failures, [stage |-> "container_remove", exc |-> err])
                    /\ IF RaiseError(logger)
                         THEN /\ Log(logger, <<Msg("info", "Attempting to remove container", container, None, 0)>>)
                              /\ kOutcome' = Raise(err)
                         ELSE /\ Log(logger, <<Msg("info", "Attempting to remove container", container, None, 0),
                                      Msg("error", "Failed to remove container", container, err, 0)>>)
                              /\ kOutcome' = Return(None)
    /\ kpc' = "done"
    /\ UNCHANGED <<fn, logger, rm_image, image_id, container, container_info, pid>>
    /\ UNCHANGED notCleanup

CleanupContainer ==
    \/ ContainerEntry
    \/ ContainerStop
    \/ ContainerInspect
    \/ ContainerPidCheck
    \/ ContainerKill
    \/ ContainerRemove

NextCleanup == CleanupImageCall \/ CleanupContainer

\* No cleanup call is in progress.
IdleCleanup ==
    /\ fn = None /\ logger = None /\ rm_image = FALSE /\ image_id = None
    /\ container = None /\ kpc = "idle" /\ container_info = NoInfo /\ pid = 0
    /\ calls = <<>> /\ logCalls = <<>> /\ stdout = <<>> /\ logged = <<>>
    /\ failures = <<>> /\ kOutcome = Pending

(***************************************************************************)
(* should_remove                                                           *)
(***************************************************************************)
\* Image names are strings: sequences of characters.
SwebBase == <<"s", "w", "e", "b", ".", "b", "a", "s", "e">>
SwebEnv == <<"s", "w", "e", "b", ".", "e", "n", "v">>
SwebEval == <<"s", "w", "e", "b", ".", "e", "v", "a", "l">>

Name_base_x == SwebBase \o <<".", "x">>
Name_env_x == SwebEnv \o <<".", "x">>
Name_eval_x == SwebEval \o <<".", "x">>
Name_ubuntu == <<"u", "b", "u", "n", "t", "u">>

\* Beginnings of the names tried: the three prefixes, what is left of each with
\* its end cut off, and names that only resemble them.
Stems ==
    { SwebBase, SwebEnv, SwebEval,
      SubSeq(SwebBase, 1, 8), SubSeq(SwebEnv, 1, 7), SubSeq(SwebEval, 1, 8),
      SubSeq(SwebEnv, 1, 6), SubSeq(SwebBase, 1, 5),
      <<>>, <<"u">>, <<"x">> \o SwebBase, <<"S">> \o SubSeq(SwebEnv, 2, 8) }
SuffixChars == {".", "x", "e", "v", "l", "n"}
Suffixes == UNION {[1..n -> SuffixChars] : n \in 0..MaxSuffix}
Names == {st \o sf : st \in Stems, sf \in Suffixes}

CacheLevels == {"none", "base", "env", "full", "instance"}
PriorPool == {Name_base_x, Name_env_x, Name_eval_x}

\* str.startswith
StartsWith(s, p) == Len(s) >= Len(p) /\ SubSeq(s, 1, Len(p)) = p

\* Faulty variant: the `existed_before` test is left out.
ShouldRemove_ignorePrior(name, c, cl, prior) ==
    IF StartsWith(name, SwebBase) THEN c \in {"none"}
    ELSE IF StartsWith(name, SwebEnv) THEN c \in {"none", "base"}
    ELSE IF StartsWith(name, SwebEval) THEN c \in {"none", "base", "env"}
    ELSE FALSE

\* Faulty variant: the env tier is also removed at cache level "env".
ShouldRemove_envTier(name, c, cl, prior) ==
    LET existed_before == name \in prior
    IN  IF StartsWith(name, SwebBase)
          THEN c \in {"none"} /\ (cl \/ ~existed_before)
        ELSE IF StartsWith(name, SwebEnv)
          THEN c \in {"none", "base", "env"} /\ (cl \/ ~existed_before)
        ELSE IF StartsWith(name, SwebEval)
          THEN c \in {"none", "base", "env"} /\ (cl \/ ~existed_before)
        ELSE FALSE

\* Lines 210-224: should_remove
ShouldRemove(name, c, cl, prior) ==
    LET existed_before == name \in prior
    IN  IF StartsWith(name, SwebBase)
          THEN IF c \in {"none"} /\ (cl \/ ~existed_before) THEN TRUE ELSE FALSE
        ELSE IF StartsWith(name, SwebEnv)
          THEN IF c \in {"none", "base"} /\ (cl \/ ~existed_before) THEN TRUE ELSE FALSE
        ELSE IF StartsWith(name, SwebEval)
          THEN IF c \in {"none", "base", "env"} /\ (cl \/ ~existed_before) THEN TRUE ELSE FALSE
        ELSE FALSE

InitRemove ==
    /\ image_name \in Names
    /\ cache \in CacheLevels
    /\ clean \in BOOLEAN
    /\ prior_images \in SUBSET PriorPool
    /\ rpc = "call"
    /\ result = FALSE

\* A call of should_remove(image_name, cache, clean, prior_images).
ShouldRemoveCall ==
    /\ rpc = "call"
    /\ result' = ShouldRemove(image_name, cache, clean, prior_images)
    /\ rpc' = "done"
    /\ UNCHANGED <<image_name, cache, clean, prior_images>>
    /\ UNCHANGED notRemove

NextRemove == ShouldRemoveCall

\* No call of should_remove is in progress.
IdleRemove ==
    /\ image_name = <<>> /\ cache = None /\ clean = FALSE /\ prior_images = {}
    /\ rpc = "idle" /\ result = FALSE

(***************************************************************************)
(* clean_images                                                            *)
(***************************************************************************)
\* Tags the engine may list.
ImagePool == {Name_base_x, Name_env_x, Name_eval_x, Name_ubuntu}

\* Faulty variant: a real logger is passed to cleanup_image.
CleanLogger_real == Logger

\* Line 202: the logger argument of the cleanup_image call.
CleanLogger == "quiet"

\* Line 204: `except Exception` catches what images.remove raises.
Caught(e) == e \in ImageErrors

InitClean ==
    /\ images \in SUBSET ImagePool
    /\ cache \in CacheLevels
    /\ clean \in BOOLEAN
    /\ prior_images \in SUBSET PriorPool
    /\ image_name = <<>>
    /\ rpc = "idle"
    /\ result = FALSE
    /\ todo = {}
    /\ removed = 0
    /\ lpc = "call"
    /\ lOutcome = Pending

\* Lines 196-198: images = list_images(client); removed = 0; print(...)
CleanImagesEntry ==
    /\ lpc = "call"
    /\ todo' = images
    /\ removed' = 0
    /\ stdout' = Append(stdout, Msg("print", "Cleaning cached images...", <<>>, None, 0))
    /\ lpc' = "loop"
    /\ UNCHANGED <<images, lOutcome, removeVars, execVars>>
    /\ UNCHANGED <<fn, logger, rm_image, image_id, container, kpc, container_info, pid,
                   calls, logCalls, logged, failures, kOutcome>>

\* Lines 199-206: one iteration of the for loop, over the set in any order.
CleanImagesIteration ==
    /\ lpc = "loop"
    /\ \E name \in todo :
          /\ image_name' = name
          /\ todo' = todo \ {name}
          /\ IF ShouldRemove(name, cache, clean, prior_images)
               THEN \E err \in {None} \cup ImageErrors :
                      LET r == CleanupImage(CleanLogger, TRUE, name, err)
                          out == stdout \o Routed(r.logs, CleanLogger, "print")
                      IN  /\ calls' = calls \o r.calls
                          /\ logCalls' = logCalls \o r.logs
                          /\ logged' = logged \o Routed(r.logs, CleanLogger, "logger.info")
                          /\ failures' = failures \o r.failures
                          /\ IF r.outcome.kind # "raise"
                               THEN /\ removed' = removed + 1
                                    /\ stdout' = out
                                    /\ UNCHANGED <<lpc, lOutcome>>
                             ELSE IF Caught(r.outcome.value[1])
                               THEN /\ stdout' = Append(out,
                                          Msg("print", "Error removing image", name,
                                              r.outcome.value[1], 0))
                                    /\ UNCHANGED <<removed, lpc, lOutcome>>
                             ELSE /\ lOutcome' = r.outcome
                                  /\ lpc' = "done"
                                  /\ stdout' = out
                                  /\ UNCHANGED removed
               ELSE UNCHANGED <<calls, logCalls, stdout, logged, failures, removed,
                                lpc, lOutcome>>
    /\ UNCHANGED <<images, cache, clean, prior_images, rpc, result, execVars>>
    /\ UNCHANGED <<fn, logger, rm_image, image_id, container, kpc, container_info, pid,
                   kOutcome>>

\* Line 207: the loop is over; print(f"Removed {removed} images.")
CleanImagesExit ==
    /\ lpc = "loop"
    /\ todo = {}
    /\ stdout' = Append(stdout, Msg("print", "Removed images", <<>>, None, removed))
    /\ lOutcome' = Return(None)
    /\ lpc' = "done"
    /\ UNCHANGED <<images, todo, removed, removeVars, execVars>>
    /\ UNCHANGED <<fn, logger, rm_image, image_id, container, kpc, container_info, pid,
                   calls, logCalls, logged, failures, kOutcome>>

NextClean == CleanImagesEntry \/ CleanImagesIteration \/ CleanImagesExit

\* No call of clean_images is in progress.
IdleClean ==
    /\ images = {} /\ todo = {} /\ removed = 0 /\ lpc = "idle" /\ lOutcome = Pending

(***************************************************************************)
(* Specifications                                                          *)
(***************************************************************************)
ExecInit == InitExec /\ IdleCleanup /\ IdleRemove /\ IdleClean

SpecExec == ExecInit /\ [][NextExec]_vars

CleanupInit == InitCleanup /\ IdleExec /\ IdleRemove /\ IdleClean

SpecCleanup == CleanupInit /\ [][NextCleanup]_vars

RemoveInit == InitRemove /\ IdleExec /\ IdleCleanup /\ IdleClean

SpecRemove == RemoveInit /\ [][NextRemove]_vars

CleanInit == InitClean /\ IdleExec /\ IdleCleanup

SpecClean == CleanInit /\ [][NextClean]_vars

(***************************************************************************)
(* Claims about exec_run_with_timeout                                      *)
(***************************************************************************)

\* C1 (as stated): when the call has ended, a worker that finished without
\* error before the deadline gives the command's result, and whenever the
\* deadline elapsed before the worker finished (join returned while the worker
\* was still inside exec_create or exec_start) the caller got the TimeoutError
\* naming the command and the timeout -- never the result and never another
\* exception.
C1_DeadlineDecidesOutcome ==
    cpc = "done" =>
        /\ (tFinish # -1 /\ tFinish < timeout /\ exception = None)
               => outcome = Return(cmdResult)
        /\ deadlineFirst => outcome = TimeoutError(cmd, timeout)

C3_NoCancellation ==
    /\ [][(cpc' # cpc /\ cpc # "start")
            => UNCHANGED <<wpc, exec_result, exec_id, exception, raised>>]_vars
    /\ [][cpc = "done" => (cpc' = "done" /\ outcome' = outcome)]_vars
    /\ [](( /\ cpc = "done"
            /\ outcome = TimeoutError(cmd, timeout)
            /\ IsAlive(wpc)) => ENABLED Worker)

\* C3 witness: the caller has the timeout error, and the worker, which was
\* still running at that moment, has since completed with a result.
C3_Witness ==
    /\ cpc = "done"
    /\ outcome = TimeoutError(cmd, timeout)
    /\ wpc = "dead"
    /\ exec_result # None

(***************************************************************************)
(* Claims about cleanup_image and cleanup_container                        *)
(***************************************************************************)
HasCall(op) == \E i \in DOMAIN calls : calls[i].op = op
FailedCall(op) == \E i \in DOMAIN calls : calls[i].op = op /\ ~calls[i].ok
\* Every recorded failure was passed to log_error and reached logger.info.
FailuresLogged ==
    \A i \in DOMAIN failures :
        \E j \in DOMAIN logged :
            logged[j].level = "error" /\ logged[j].exc = failures[i].exc

\* C4: cleanup_image with rm_image set, when images.remove fails: the failure
\* is re-raised if logger is None and if logger is "quiet" (which emits no
\* output at all); it is swallowed and logged through the logger only for a
\* real logger, the only mode in which the call returns normally.
C4_ImageFailureTriState ==
    (fn = "cleanup_image" /\ kpc = "done" /\ rm_image /\ FailedCall("images.remove")) =>
        /\ failures # <<>>
        /\ logger = None => kOutcome = Raise(failures[1].exc)
        /\ logger = "quiet" =>
              kOutcome = Raise(failures[1].exc) /\ stdout = <<>> /\ logged = <<>>
        /\ logger = Logger =>
              kOutcome = Return(None) /\ FailuresLogged /\ stdout = <<>>
        /\ kOutcome.kind = "return" <=> logger = Logger

\* C4 witness: a removal failed under a real logger and the call has returned.
C4_Witness ==
    /\ fn = "cleanup_image" /\ kpc = "done" /\ rm_image
    /\ FailedCall("images.remove")
    /\ logger = Logger
    /\ kOutcome = Return(None)

\* C5 (as stated): when an engine operation has failed (image remove, the kill
\* fallback of the stop/kill stage, container remove), logger=None re-raises,
\* logger="quiet" swallows the failure and prints nothing, and a real logger
\* swallows and logs it.
C5_QuietSwallows ==
    (kpc = "done" /\ failures # <<>>) =>
        /\ logger = None => kOutcome = Raise(failures[1].exc)
        /\ logger = "quiet" =>
              kOutcome = Return(None) /\ stdout = <<>> /\ logged = <<>>
        /\ logger = Logger =>
              kOutcome = Return(None) /\ FailuresLogged

\* C5 (amended): logger=None re-raises the failure; logger="quiet" re-raises
\* it too and prints nothing; a real logger swallows and logs it.  A graceful
\* stop that fails is never itself re-raised: without a later failure the call
\* returns normally.
C5_QuietReraises ==
    /\ logger = "quiet" => (stdout = <<>> /\ logged = <<>>)
    /\ (kpc = "done" /\ failures # <<>>) =>
          /\ logger = None => kOutcome = Raise(failures[1].exc)
          /\ logger = "quiet" => kOutcome = Raise(failures[1].exc)
          /\ logger = Logger => kOutcome = Return(None) /\ FailuresLogged
    /\ (kpc = "done" /\ failures = <<>>) => kOutcome = Return(None)

\* C5 witness: under "quiet", the stop failed, the kill went through and the
\* container removal then failed.
C5_Witness ==
    /\ fn = "cleanup_container" /\ kpc = "done"
    /\ logger = "quiet"
    /\ FailedCall("stop") /\ HasCall("os.kill")
    /\ failures # <<>> /\ failures[1].stage = "container_remove"

\* C6 (as stated): with a non-null container, container.remove(force=True) has
\* been attempted by the time the call ends, on every path and in every
\* logger mode.
C6_RemovalAlwaysAttempted ==
    (fn = "cleanup_container" /\ container # None /\ kpc = "done") => HasCall("remove")

\* C10: a termination signal is sent only as the third call, after a failed
\* stop and an inspect that returned a process ID > 0, and to exactly that ID;
\* after a successful stop, or an inspected ID that is 0, missing or negative,
\* no signal is sent, the absence is passed to log_error and cleanup goes on to
\* the removal; a null container makes the call return with no engine call.
C10_KillOnlyValidPid ==
    /\ \A i \in DOMAIN calls :
          calls[i].op = "os.kill" =>
             /\ i = 3
             /\ calls[1].op = "stop" /\ ~calls[1].ok
             /\ calls[2].op = "inspect_container" /\ calls[2].ok
             /\ "State" \in DOMAIN container_info
             /\ "Pid" \in DOMAIN container_info["State"]
             /\ container_info["State"]["Pid"] > 0
             /\ calls[i].pid = container_info["State"]["Pid"]
    /\ (fn = "cleanup_container" /\ kpc \in {"remove", "done"} /\ container # None) =>
          /\ calls[1].op = "stop"
          /\ calls[1].ok => ~HasCall("os.kill")
          /\ ( /\ ~calls[1].ok
               /\ "State" \in DOMAIN container_info
               /\ Get(container_info["State"], "Pid", 0) <= 0 ) =>
                  /\ ~HasCall("os.kill")
                  /\ \E j \in DOMAIN logCalls :
                        /\ logCalls[j].level = "error"
                        /\ logCalls[j].text = "PID not killing"
                  /\ kpc = "done" => HasCall("remove")
    /\ (fn = "cleanup_container" /\ container = None /\ kpc = "done") =>
          /\ calls = <<>>
          /\ logCalls = <<>>
          /\ kOutcome = Return(None)

\* C10 witness: the stop failed, inspect reported the largest process ID, the
\* signal went to it and the call has ended.
C10_Witness ==
    /\ fn = "cleanup_container" /\ kpc = "done"
    /\ Len(calls) >= 3
    /\ calls[3].op = "os.kill" /\ calls[3].pid = MaxPid

(***************************************************************************)
(* Claims about should_remove                                              *)
(***************************************************************************)
\* s begins with p, character by character.
BeginsWith(s, p) == Len(s) >= Len(p) /\ \A i \in 1..Len(p) : s[i] = p[i]

\* C7: should_remove returns True exactly when (the name starts with sweb.base
\* and cache = none, or with sweb.env and cache in {none, base}, or with
\* sweb.eval and cache in {none, base, env}) and (clean is set or the name is
\* not in prior_images); otherwise False, in particular for every other prefix
\* and every other cache value.
C7_TierTable ==
    rpc = "done" =>
        /\ result \in BOOLEAN
        /\ result <=>
              /\ \/ BeginsWith(image_name, SwebBase) /\ cache = "none"
                 \/ BeginsWith(image_name, SwebEnv) /\ cache \in {"none", "base"}
                 \/ BeginsWith(image_name, SwebEval) /\ cache \in {"none", "base", "env"}
              /\ clean \/ image_name \notin prior_images
        /\ ( /\ ~BeginsWith(image_name, SwebBase)
             /\ ~BeginsWith(image_name, SwebEnv)
             /\ ~BeginsWith(image_name, SwebEval) ) => result = FALSE
        /\ cache \notin {"none", "base", "env"} => result = FALSE

\* C7 witness: a name that continues the sweb.env prefix, absent from a
\* non-empty prior_images, at cache level base without clean: removed.
C7_Witness ==
    /\ rpc = "done"
    /\ BeginsWith(image_name, SwebEnv) /\ Len(image_name) > Len(SwebEnv)
    /\ cache = "base" /\ ~clean
    /\ prior_images # {} /\ image_name \notin prior_images
    /\ result = TRUE

\* The three calls of C8.
C8_EnvCase ==
    /\ rpc = "done" /\ image_name = Name_env_x /\ cache = "base"
    /\ clean = FALSE /\ prior_images = {Name_env_x}
C8_EvalCase ==
    /\ rpc = "done" /\ image_name = Name_eval_x /\ cache = "env"
    /\ clean = FALSE /\ prior_images = {Name_eval_x}
C8_BaseCase ==
    /\ rpc = "done" /\ image_name = Name_base_x /\ cache = "env"
    /\ clean = FALSE /\ prior_images = {Name_base_x}

\* C8 (as stated): for an image that existed before the run, with clean False,
\* should_remove("sweb.env.x", "base") and should_remove("sweb.eval.x", "env")
\* are True, and should_remove("sweb.base.x", "env") is False.
C8_PriorImageRemoved ==
    /\ C8_EnvCase => result = TRUE
    /\ C8_EvalCase => result = TRUE
    /\ C8_BaseCase => result = FALSE

\* C8 (amended): all three calls return False: an image that existed before
\* the run is not removed while clean is False, whatever its tier.
C8_PriorImageKept ==
    /\ C8_EnvCase => result = FALSE
    /\ C8_EvalCase => result = FALSE
    /\ C8_BaseCase => result = FALSE

\* C8 witness: should_remove("sweb.env.x", "base", False, {"sweb.env.x"}) has
\* returned.
C8_Witness == C8_EnvCase /\ result = FALSE

(***************************************************************************)
(* Claims about clean_images                                               *)
(***************************************************************************)
RemovalsOf(name) ==
    Cardinality({i \in DOMAIN calls : calls[i].op = "images.remove" /\ calls[i].subject = name})

\* C9: a failed removal never aborts the batch.  The loop ends only when every
\* listed image has been visited; by then removal has been attempted exactly
\* once for every listed image for which should_remove holds and for no other,
\* clean_images has returned without raising, and the reported count is the
\* number of removals that succeeded.
C9_BatchNeverAborts ==
    /\ \A i \in DOMAIN calls : calls[i].op = "images.remove"
    /\ \A name \in ImagePool : RemovalsOf(name) <= 1
    /\ lpc = "done" =>
          /\ todo = {}
          /\ lOutcome = Return(None)
          /\ \A name \in ImagePool :
                RemovalsOf(name) =
                   IF name \in images /\ ShouldRemove(name, cache, clean, prior_images)
                     THEN 1 ELSE 0
          /\ removed = Cardinality({i \in DOMAIN calls : calls[i].ok})
          /\ stdout[Len(stdout)].pid = removed

\* C9 witness: a removal failed, a later one succeeded, and the call has ended.
C9_Witness ==
    /\ lpc = "done"
    /\ \E i, j \in DOMAIN calls : i < j /\ ~calls[i].ok /\ calls[j].ok

====
